---------------------------- MODULE Spec2Model ----------------------------
(***************************************************************************)
(* A model of src/extractor/extractor.cpp of osrm-backend: the extraction  *)
(* driver (Extractor::run, Extractor::ParseOSMData and its two parallel    *)
(* pipelines), the strongly-connected-component labeler                    *)
(* (Extractor::FindComponents) and the segregated-edge detector            *)
(* (IsSegregated, Extractor::FindSegregatedNodes).                         *)
(*                                                                         *)
(* The module holds several specifications over one set of variables; a    *)
(* specification leaves the variables of the other parts at their idle     *)
(* values.                                                                 *)
(*   SpecSCC  : FindComponents applied to bounded inputs                   *)
(***************************************************************************)
EXTENDS Integers, Sequences, FiniteSets, TLC

VARIABLES
    \* ---- FindComponents (extractor.cpp:597-653)
    number_of_edge_based_nodes, \* unsigned number_of_edge_based_nodes
    input_edge_list,            \* DeallocatingVector<EdgeBasedEdge>
    input_node_segments,        \* vector<EdgeBasedNodeSegment>
    small_component_size,       \* config.small_component_size
    component_id,               \* nodes_container.nodes[i].component_id
    scc_pc,                     \* "idle" | "input" | "done"
    \* ---- IsSegregated (extractor.cpp:860-952)
    seg_v1,                     \* std::vector<EdgeInfo> v1 (by value)
    seg_v2,                     \* std::vector<EdgeInfo> v2 (by value)
    seg_current,                \* EdgeInfo const &current
    seg_length,                 \* double edgeLength
    seg_result,                 \* the value of IsSegregated(v1, v2, current, edgeLength)
    seg_mirror,                 \* the value of IsSegregated(v2, v1, current, edgeLength)
    seg_pc,                     \* "idle" | "input" | "done"
    \* ---- Extractor::FindSegregatedNodes (extractor.cpp:954-1066)
    fsn_roads,                  \* the roads of the node-based graph
    fsn_index,                  \* position of the (sourceID, edgeID) loops
    segregated_edges,           \* std::unordered_set<EdgeID>
    fsn_pc,                     \* "idle" | "loop" | "done"
    \* ---- Extractor::run and Extractor::ParseOSMData (extractor.cpp:186-595)
    profile,                    \* what the scripting environment declares
    use_locations_cache,        \* HasLocationDependentData() && config.use_locations_cache
    num_tokens,                 \* num_threads, the pipelines' number of live tokens
    relation_buffers,           \* number of buffers the relations reader yields
    entity_buffers,             \* per buffer of the second reader: does it hold a routable way
    run_pc,                     \* where Extractor::run is
    step,                       \* position in the step list of run_pc
    tokens,                     \* the tokens in flight in the running pipeline
    buffers_read,               \* buffers read so far by the reader of each phase
    reader_stopped,             \* fc.stop() was called in the running pipeline
    relations,                  \* ExtractionRelationContainer relations: the merged buffers
    extraction_containers,      \* the parsed buffers the callbacks have stored, in order
    classes_map,                \* ExtractorCallbacks::ClassesMap
    transformed,                \* the buffers in the order buffer_transformer finished them
    profile_properties,         \* class names and excludable masks set so far
    written,                    \* the output files written so far
    error,                      \* the exception thrown, or "none"
    locals,                     \* the locals of run still to be destroyed on its way out
    node_based_graph_factory,   \* "none" | "alive" | "destroyed"
    writer,                     \* compressed_node_based_graph_writing: "none" | "running" | "done"
    \* ---- Extractor::BuildRTree (extractor.cpp:758-797)
    segments_on_entry,          \* edge_based_node_segments as passed by the caller
    edge_based_node_segments,   \* std::vector<EdgeBasedNodeSegment> (by value)
    node_is_startpoint,         \* std::vector<bool> (by value)
    rtree_index,                \* index of the loop of line 768
    out_iter,                   \* out_iter - edge_based_node_segments.begin()
    in_iter,                    \* in_iter - edge_based_node_segments.begin()
    rtree_files,                \* the files the StaticRTree constructor has written
    rtree_error,                \* the exception thrown, or "none"
    rtree_pc,                    \* "idle" | "filter" | "construct" | "done" | "failed"
    \* ---- SetClassNames and SetExcludableClasses (extractor.cpp:77-164)
    cls_class_names,            \* scripting_environment.GetClassNames()
    cls_used_classes,           \* the classes the ways used, in the order of first use
    cls_excludable_classes,     \* scripting_environment.GetExcludableClasses()
    cls_classes_map,            \* ExtractorCallbacks::ClassesMap classes_map
    cls_masks,                  \* the masks set by SetExcludableClasses(index, mask), by index
    cls_error,                  \* the exception thrown, or "none"
    cls_pc,                      \* "idle" | "SetClassNames" | "SetExcludableClasses" | "done" | "failed"
    \* ---- create_edge_based_edges of Extractor::BuildEdgeExpandedGraph (extractor.cpp:693-722)
    turn_restrictions,          \* std::vector<TurnRestriction>
    conditional_turn_restrictions, \* std::vector<ConditionalTurnRestriction>
    via_node_restriction_map,   \* RestrictionMap: the restrictions it indexes
    via_way_restriction_map,    \* WayRestrictionMap: the restrictions it indexes
    conditional_node_restriction_map, \* ConditionalRestrictionMap: the restrictions it indexes
    rst_pc                      \* "idle" | "input" | "done"

sccVars == <<number_of_edge_based_nodes, input_edge_list, input_node_segments,
             small_component_size, component_id, scc_pc>>

segVars == <<seg_v1, seg_v2, seg_current, seg_length, seg_result, seg_mirror,
             seg_pc>>

fsnVars == <<fsn_roads, fsn_index, segregated_edges, fsn_pc>>

runInputs == <<profile, use_locations_cache, num_tokens, relation_buffers,
               entity_buffers>>

pipelineVars == <<tokens, buffers_read, reader_stopped, relations,
                  extraction_containers, classes_map, transformed>>

runVars == <<runInputs, pipelineVars, run_pc, step, profile_properties, written,
             error, locals, node_based_graph_factory, writer>>

rtreeVars == <<segments_on_entry, edge_based_node_segments, node_is_startpoint,
               rtree_index, out_iter, in_iter, rtree_files, rtree_error, rtree_pc>>

clsVars == <<cls_class_names, cls_used_classes, cls_excludable_classes,
             cls_classes_map, cls_masks, cls_error, cls_pc>>

rstVars == <<turn_restrictions, conditional_turn_restrictions,
             via_node_restriction_map, via_way_restriction_map,
             conditional_node_restriction_map, rst_pc>>

vars == <<sccVars, segVars, fsnVars, runVars, rtreeVars, clsVars, rstVars>>

-----------------------------------------------------------------------------
(* Bounds of the model *)

MaxEBN == 3

MaxEdges == 2

MaxSegments == 1

\* IsSegregated: the longest neighbor lists, the largest name and class mask
MaxNeighbors == 3

MaxName == 2

MaxClass == 1

\* Extractor::run: the most buffers a reader yields, the most live tokens
MaxBuffers == 3

MaxTokens == 3

\* BuildRTree: the longest segment vector
MaxRTreeSegments == 3

\* SetExcludableClasses: the longest list of freely mixed combinations
MaxCombinations == 3

\* create_edge_based_edges: the longest list of restrictions
MaxRestrictions == 3

\* SetClassNames: the largest first index of a run of class names
MaxRunStart == 3

-----------------------------------------------------------------------------
(* Generic helpers *)

Range(s) == {s[i] : i \in 1..Len(s)}

SeqsUpTo(S, n) == UNION {[1..k -> S] : k \in 0..n}

SetMin(S) == CHOOSE x \in S : \A y \in S : x <= y

-----------------------------------------------------------------------------
(***************************************************************************)
(* FindComponents                                                          *)
(***************************************************************************)

\* The edge-based edges the labeler is given: source, target, weight and the
\* two direction flags of EdgeBasedEdge.
EdgeBasedEdges(n) ==
    [source : 0..(n - 1), target : 0..(n - 1), weight : {1},
     forward : BOOLEAN, backward : BOOLEAN]

\* The segments the labeler is given: the forward id and the reverse id of
\* one undirected segment are two different edge-based nodes.
EdgeBasedNodeSegments(n) ==
    {s \in [forward_segment_id : 0..(n - 1), reverse_segment_id : 0..(n - 1),
            reverse_enabled : BOOLEAN] :
        s.forward_segment_id # s.reverse_segment_id}

\* The edges a caller could pass if nothing held it to the contract: ids up
\* to one past the last edge-based node, weights around 1.
UncheckedEdgeBasedEdges(n) ==
    [source : 0..n, target : 0..n, weight : {0 - 1, 0, 1},
     forward : {TRUE}, backward : BOOLEAN]

\* static_cast<unsigned int>(x) of a 32-bit int: x itself unless x is negative
StaticCastUnsigned(x) == IF x >= 0 THEN x ELSE x + 2 ^ 32

\* line 609: static_cast<unsigned int>(std::max(edge.data.weight, 1)) > 0
WeightAssertion(edge) ==
    StaticCastUnsigned(IF edge.weight > 1 THEN edge.weight ELSE 1) > 0

\* line 611: edge.source < number_of_edge_based_nodes
SourceAssertion(edge, n) == edge.source < n

\* line 612: edge.target < number_of_edge_based_nodes
TargetAssertion(edge, n) == edge.target < n

\* lines 607-612: no assertion of the edge loop fails (a build with
\* assertions enabled).
EntryAssertionsHold(n, el) ==
    \A i \in 1..Len(el) :
        WeightAssertion(el[i]) /\ SourceAssertion(el[i], n) /\ TargetAssertion(el[i], n)

\* A labeler that reads the forward flag only.
RECURSIVE DirectedEdgesForwardOnly(_)
DirectedEdgesForwardOnly(el) ==
    IF el = <<>> THEN <<>>
    ELSE LET edge == Head(el) IN
         (IF edge.forward THEN << <<edge.source, edge.target>> >> ELSE <<>>)
         \o DirectedEdgesForwardOnly(Tail(el))

\* lines 607-622: (source,target) for a forward edge, (target,source) for a
\* backward edge, in the order of the input list.
RECURSIVE DirectedEdges(_)
DirectedEdges(el) ==
    IF el = <<>> THEN <<>>
    ELSE LET edge == Head(el) IN
         (IF edge.forward THEN << <<edge.source, edge.target>> >> ELSE <<>>)
         \o (IF edge.backward THEN << <<edge.target, edge.source>> >> ELSE <<>>)
         \o DirectedEdges(Tail(el))

\* A labeler that joins the two ids of a segment in one direction only.
RECURSIVE MateEdgesOneWay(_)
MateEdgesOneWay(segs) ==
    IF segs = <<>> THEN <<>>
    ELSE LET segment == Head(segs) IN
         (IF segment.reverse_enabled
          THEN << <<segment.forward_segment_id, segment.reverse_segment_id>> >>
          ELSE <<>>)
         \o MateEdgesOneWay(Tail(segs))

\* A labeler that inserts no mate edges at all.
MateEdgesNone(segs) == <<>>

\* lines 626-635: both directions between the forward and the reverse id of
\* every segment whose reverse id is enabled.
RECURSIVE MateEdges(_)
MateEdges(segs) ==
    IF segs = <<>> THEN <<>>
    ELSE LET segment == Head(segs) IN
         (IF segment.reverse_enabled
          THEN << <<segment.forward_segment_id, segment.reverse_segment_id>>,
                  <<segment.reverse_segment_id, segment.forward_segment_id>> >>
          ELSE <<>>)
         \o MateEdges(Tail(segs))

\* operator< of the sortable input edge: by source, then by target.
EdgeLess(a, b) == a[1] < b[1] \/ (a[1] = b[1] /\ a[2] < b[2])

\* line 637: tbb::parallel_sort(edges): insertion of each element into the
\* sorted rest (equal edges are indistinguishable, so the order is unique).
RECURSIVE InsertEdge(_, _)
InsertEdge(e, s) ==
    IF s = <<>> THEN <<e>>
    ELSE IF EdgeLess(Head(s), e) THEN <<Head(s)>> \o InsertEdge(e, Tail(s))
    ELSE <<e>> \o s

RECURSIVE ParallelSort(_)
ParallelSort(s) ==
    IF s = <<>> THEN <<>> ELSE InsertEdge(Head(s), ParallelSort(Tail(s)))

\* line 638: edges.erase(std::unique(...)): drops an element equal to its
\* predecessor.
RECURSIVE Unique(_)
Unique(s) ==
    IF Len(s) < 2 THEN s
    ELSE IF s[1] = s[2] THEN Unique(Tail(s))
    ELSE <<s[1]>> \o Unique(Tail(s))

\* line 640: UncontractedGraph(number_of_edge_based_nodes, edges).
UncontractedGraph(n, edges) == [nodes |-> 0..(n - 1), edges |-> Range(edges)]

\* lines 604-640: the graph the component search runs on.
ComponentGraph(n, el, segs) ==
    UncontractedGraph(n, Unique(ParallelSort(DirectedEdges(el) \o MateEdges(segs))))

\* TarjanSCC (extractor/tarjan_scc.hpp): the strongly connected components
\* of the graph, numbered from 0.
RECURSIVE ReachFrom(_, _)
ReachFrom(g, S) ==
    LET T == S \cup {e[2] : e \in {x \in g.edges : x[1] \in S}}
    IN  IF T = S THEN S ELSE ReachFrom(g, T)

SCCOf(g, v) == {w \in ReachFrom(g, {v}) : v \in ReachFrom(g, {w})}

Leaders(g) == {SetMin(SCCOf(g, v)) : v \in g.nodes}

\* component_search.GetComponentID(node_id)
GetComponentID(g, v) ==
    Cardinality({l \in Leaders(g) : l < SetMin(SCCOf(g, v))})

\* component_search.GetComponentSize(component)
GetComponentSize(g, c) ==
    Cardinality({v \in g.nodes : GetComponentID(g, v) = c})

\* A labeler that counts a component of exactly the threshold size as tiny.
IsTinyInclusive(component_size, threshold) == component_size <= threshold

\* line 649: is_tiny = component_size < config.small_component_size
IsTiny(component_size, threshold) == component_size < threshold

\* A labeler that stores the bare component index.
StoredComponentIDBare(forward_component) == forward_component

\* line 651: the stored id is 1 + forward_component
StoredComponentID(forward_component) == 1 + forward_component

\* lines 645-652: the label of every edge-based node.
Labels(n, el, segs, threshold) ==
    LET g == ComponentGraph(n, el, segs) IN
    [node_id \in 0..(n - 1) |->
        LET forward_component == GetComponentID(g, node_id)
            component_size == GetComponentSize(g, forward_component)
        IN  [id |-> StoredComponentID(forward_component),
             is_tiny |-> IsTiny(component_size, threshold)]]


-----------------------------------------------------------------------------
(***************************************************************************)
(* IsSegregated                                                            *)
(*                                                                         *)
(* A name is a number: 0 is the empty string and a smaller number is a     *)
(* lexicographically smaller string, so < on names is the StringView <.    *)
(* A length is a whole number of metres.                                   *)
(***************************************************************************)

\* The road priority classes get_length_threshold tells apart.
RoadPriorityClass ==
    {"MOTORWAY", "TRUNK", "PRIMARY", "SECONDARY", "TERTIARY", "OTHER"}

\* struct EdgeInfo, lines 841-858 (node and direction are not read by
\* IsSegregated).
EdgeInfo(names, classes, priorities) ==
    [name : names, road_class : classes, road_priority_class : priorities]

\* EdgeInfo::LessName, lines 854-857
LessName(e1, e2) == e1.name < e2.name

IndexPermutations(n) == {p \in [1..n -> 1..n] : \A i, j \in 1..n : p[i] = p[j] => i = j}

\* lines 868-873: std::sort(v.begin(), v.end(), LessName()): a permutation of
\* v in which no element is LessName than an earlier one; the order of the
\* elements of equal name is whatever the sort produces.
SortByName(v) ==
    {s \in {[i \in 1..Len(v) |-> v[p[i]]] : p \in IndexPermutations(Len(v))} :
        \A i, j \in 1..Len(s) : i < j => ~LessName(s[j], s[i])}

\* lines 884-886: std::binary_search(v.begin(), v.end(), current, LessName())
\* on a sorted v: the first element not less than current is not greater.
BinarySearchName(v, current) ==
    LET notLess == {i \in 1..Len(v) : ~LessName(v[i], current)}
    IN  notLess # {} /\ ~LessName(current, v[SetMin(notLess)])

\* A detector that looks for the current name in the first list only.
FindsNameFirstOnly(v1, v2, current) == BinarySearchName(v1, current)

\* line 888: findNameFn(v1) || findNameFn(v2)
FindsName(v1, v2, current) ==
    BinarySearchName(v1, current) \/ BinarySearchName(v2, current)

\* lines 892-912: the set_intersection like routine; a pair is two elements
\* of equal, non-empty name met by the two cursors at the same time.
RECURSIVE Commons(_, _, _, _)
Commons(v1, v2, i1, i2) ==
    IF i1 > Len(v1) \/ i2 > Len(v2) THEN <<>>
    ELSE IF v1[i1].name = v2[i2].name
         THEN (IF v1[i1].name # 0 THEN << <<v1[i1], v2[i2]>> >> ELSE <<>>)
              \o Commons(v1, v2, i1 + 1, i2 + 1)
    ELSE IF v1[i1].name < v2[i2].name THEN Commons(v1, v2, i1 + 1, i2)
    ELSE Commons(v1, v2, i1, i2 + 1)

\* lines 917-920: check_equal_class
CheckEqualClass(e) == e[1].road_class = e[2].road_class

\* lines 922-925: equal_class_count
EqualClassCount(commons) ==
    Cardinality({i \in 1..Len(commons) : CheckEqualClass(commons[i])})

\* lines 930-944: get_length_threshold
GetLengthThreshold(e) ==
    CASE e.road_priority_class \in {"MOTORWAY", "TRUNK"} -> 30
      [] e.road_priority_class = "PRIMARY" -> 20
      [] e.road_priority_class \in {"SECONDARY", "TERTIARY"} -> 10
      [] OTHER -> 5

\* line 946: std::numeric_limits<double>::max(), above every sum of two
\* thresholds
DoubleMax == 1000000

\* A detector that takes the threshold of the first element of a pair twice.
PairThresholdFirstOnly(e) == GetLengthThreshold(e[1]) + GetLengthThreshold(e[1])

\* line 949: get_length_threshold(e.first) + get_length_threshold(e.second)
PairThreshold(e) == GetLengthThreshold(e[1]) + GetLengthThreshold(e[2])

\* lines 946-949: the minimum over the pairs
RECURSIVE Threshold(_)
Threshold(commons) ==
    IF commons = <<>> THEN DoubleMax
    ELSE LET rest == Threshold(Tail(commons))
             t == PairThreshold(Head(commons))
         IN  IF t < rest THEN t ELSE rest

\* lines 882-951: IsSegregated from the sorted lists on.
IsSegregatedSorted(v1, v2, current, edgeLength) ==
    IF current.name # 0 /\ ~FindsName(v1, v2, current) THEN FALSE
    ELSE LET commons == Commons(v1, v2, 1, 1) IN
         IF Len(commons) < 2 THEN FALSE
         ELSE IF EqualClassCount(commons) < 2 THEN FALSE
         ELSE edgeLength <= Threshold(commons)

\* lines 865-866: the early rejection of a list of fewer than 2 entries
TooFewNeighbors(v1, v2) == Len(v1) < 2 \/ Len(v2) < 2

\* The name-sorted lists of an input list that are ordered by
\* (name, road_class, road_priority_class): one list for every multiset of
\* entries (SortByName yields every order the sort may leave them in).
PriorityRank(p) == IF p = "PRIMARY" THEN 0 ELSE 1

EntryLeq(a, b) ==
    \/ a.name < b.name
    \/ a.name = b.name /\ a.road_class < b.road_class
    \/ /\ a.name = b.name
       /\ a.road_class = b.road_class
       /\ PriorityRank(a.road_priority_class) <= PriorityRank(b.road_priority_class)

\* The neighbor entries tried: a named road of any class mask, PRIMARY or of
\* a low priority class, and the unnamed road (of no class and low priority).
NeighborEntries ==
    EdgeInfo(1..MaxName, 0..MaxClass, {"PRIMARY", "OTHER"})
        \cup EdgeInfo({0}, {0}, {"OTHER"})

NeighborLists(n) ==
    {v \in SeqsUpTo(NeighborEntries, n) :
        \A i \in 1..(Len(v) - 1) : EntryLeq(v[i], v[i + 1])}

\* The edge lengths tried: on both sides of the threshold 25 (PRIMARY + OTHER).
EdgeLengths == {25, 26}

-----------------------------------------------------------------------------
(***************************************************************************)
(* FindSegregatedNodes                                                     *)
(*                                                                         *)
(* The node-based graph is given by its roads. A road from a to b has an   *)
(* edge at a with target b and an edge at b with target a; the edge against*)
(* the direction of a one-way road is the reversed one. The names of the   *)
(* scenario are numbered in their lexicographic order.                     *)
(***************************************************************************)

Name5th == 1

Name6th == 2

NameBroadway == 3

Road(a, b, name, oneway, classes, priority, length) ==
    [from |-> a, to |-> b, name |-> name, oneway |-> oneway, classes |-> classes,
     priority |-> priority, length |-> length]

\* The segregated-carriageway scenario: carriageway A from node 0 to node 1,
\* carriageway B from node 2 to node 3 in the opposite direction, the cross
\* link "5th" between 0 and 3, the cross link "6th" between 1 and 2; with
\* `broadway_continues` each carriageway goes on beyond the two junctions and
\* with `cross_continues` so does each cross street.
ScenarioRoads(p) ==
    << Road(0, 1, NameBroadway, TRUE, 1, p.priority, p.broadway_length),
       Road(2, 3, NameBroadway, TRUE, 1, p.priority, p.broadway_length),
       Road(0, 3, Name5th, p.cross_oneway, 1, p.priority, p.cross_length),
       Road(1, 2, Name6th, p.cross_oneway, 1, p.priority, p.cross_length) >>
    \o (IF p.broadway_continues
        THEN << Road(4, 0, NameBroadway, TRUE, 1, p.priority, 100),
                Road(1, 5, NameBroadway, TRUE, 1, p.priority, 100),
                Road(6, 2, NameBroadway, TRUE, 1, p.priority, 100),
                Road(3, 7, NameBroadway, TRUE, 1, p.priority, 100) >>
        ELSE <<>>)
    \o (IF p.cross_continues
        THEN << Road(8, 0, Name5th, p.cross_oneway, 1, p.priority, 100),
                Road(3, 9, Name5th, p.cross_oneway, 1, p.priority, 100),
                Road(10, 1, Name6th, p.cross_oneway, 1, p.priority, 100),
                Road(2, 11, Name6th, p.cross_oneway, 1, p.priority, 100) >>
        ELSE <<>>)

ScenarioParameters ==
    [broadway_length : {12, 41}, cross_length : {8, 41},
     priority : {"PRIMARY", "OTHER"}, cross_oneway : BOOLEAN,
     broadway_continues : BOOLEAN, cross_continues : BOOLEAN]

\* graph.GetNumberOfNodes()
NumberOfNodes(roads) ==
    1 + CHOOSE n \in {roads[i].from : i \in 1..Len(roads)}
                     \cup {roads[i].to : i \in 1..Len(roads)} :
            \A i \in 1..Len(roads) : roads[i].from <= n /\ roads[i].to <= n

\* graph.GetAdjacentEdgeRange(node) with graph.GetTarget and the data
\* get_edge_info and get_edge_length read (lines 964-986).
RECURSIVE AdjacentEdges(_, _)
AdjacentEdges(roads, node) ==
    IF roads = <<>> THEN <<>>
    ELSE LET r == Head(roads) IN
         (IF r.from = node
          THEN << [target |-> r.to, name |-> r.name, reversed |-> FALSE,
                   classes |-> r.classes, priority |-> r.priority,
                   length |-> r.length] >>
          ELSE IF r.to = node
          THEN << [target |-> r.from, name |-> r.name, reversed |-> r.oneway,
                   classes |-> r.classes, priority |-> r.priority,
                   length |-> r.length] >>
          ELSE <<>>)
         \o AdjacentEdges(Tail(roads), node)

\* get_edge_info, lines 974-986
GetEdgeInfo(node, edgeData) ==
    [node |-> node, name |-> edgeData.name,
     direction |-> IF edgeData.reversed THEN 1 ELSE 0,
     road_class |-> edgeData.classes,
     road_priority_class |-> edgeData.priority]

\* lines 991-998: the infos of the edges that do not lead to node2
RECURSIVE InfoOfEdges(_, _)
InfoOfEdges(edges1, node2) ==
    IF edges1 = <<>> THEN <<>>
    ELSE (IF Head(edges1).target = node2 THEN <<>>
          ELSE << GetEdgeInfo(Head(edges1).target, Head(edges1)) >>)
         \o InfoOfEdges(Tail(edges1), node2)

\* lines 1003-1005: std::sort by node
SortByNode(v) ==
    {s \in {[i \in 1..Len(v) |-> v[p[i]]] : p \in IndexPermutations(Len(v))} :
        \A i, j \in 1..Len(s) : i < j => s[i].node <= s[j].node}

\* lines 1007-1027: of the infos of one node the first is kept, with
\* direction 2 when there are several.
RECURSIVE MergeEqualInfos(_, _)
MergeEqualInfos(s, i) ==
    IF i > Len(s) THEN <<>>
    ELSE IF i > 1 /\ s[i - 1].node = s[i].node THEN MergeEqualInfos(s, i + 1)
    ELSE << IF i < Len(s) /\ s[i + 1].node = s[i].node
            THEN [s[i] EXCEPT !.direction = 2] ELSE s[i] >>
         \o MergeEqualInfos(s, i + 1)

\* collect_edge_info_fn, lines 988-1030: what it may return
CollectEdgeInfo(edges1, node2) ==
    {MergeEqualInfos(s, 1) : s \in SortByNode(InfoOfEdges(edges1, node2))}

\* IsSegregated, lines 860-952: the values it may return
IsSegregatedValues(v1, v2, current, edgeLength) ==
    IF TooFewNeighbors(v1, v2) THEN {FALSE}
    ELSE {IsSegregatedSorted(s1, s2, current, edgeLength) :
            s1 \in SortByName(v1), s2 \in SortByName(v2)}

\* isSegregatedFn, lines 1032-1042
IsSegregatedFn(edgeData, edges1, node1, edges2, node2, edgeLength) ==
    UNION {IsSegregatedValues(v1, v2, GetEdgeInfo(node1, edgeData), edgeLength) :
            v1 \in CollectEdgeInfo(edges1, node2),
            v2 \in CollectEdgeInfo(edges2, node1)}

\* The (sourceID, edgeID) pairs in the order of the loops of lines 1046-1049;
\* an EdgeID is the pair of its source and its place among the source's edges.
RECURSIVE EdgeIDsFrom(_, _)
EdgeIDsFrom(roads, sourceID) ==
    IF sourceID >= NumberOfNodes(roads) THEN <<>>
    ELSE [k \in 1..Len(AdjacentEdges(roads, sourceID)) |-> <<sourceID, k>>]
         \o EdgeIDsFrom(roads, sourceID + 1)

\* A loop that inserts the edges the detector rejects.
InsertsEdgeInverted(verdict) == ~verdict

\* lines 1060-1061: if (isSegregatedFn(...)) segregated_edges.insert(edgeID)
InsertsEdge(verdict) == verdict

-----------------------------------------------------------------------------
(***************************************************************************)
(* SetClassNames and SetExcludableClasses                                  *)
(*                                                                         *)
(* A class name is a sequence of characters; classes_map is a function     *)
(* from names to class masks.                                              *)
(***************************************************************************)

\* extractor/class_data.hpp
MAX_CLASS_INDEX == 7

MAX_EXCLUDABLE_CLASSES == 8

AlnumChars ==
    {"a", "b", "c", "x", "0", "1", "2", "3", "4", "5", "6", "7", "8", "9"}

\* isValidClassName: [A-Za-z0-9]+
IsValidClassName(name) ==
    Len(name) > 0 /\ \A i \in 1..Len(name) : name[i] \in AlnumChars

\* getClassData(index): the mask with the one bit `index`
GetClassData(index) == 2 ^ index

\* getClassIndexes(mask).front() of a one-bit mask
ClassIndex(mask) == CHOOSE i \in 0..MAX_CLASS_INDEX : 2 ^ i = mask

\* mask |= other
RECURSIVE BitOr(_, _)
BitOr(a, b) ==
    IF a = 0 THEN b
    ELSE IF b = 0 THEN a
    ELSE (IF a % 2 = 1 \/ b % 2 = 1 THEN 1 ELSE 0) + 2 * BitOr(a \div 2, b \div 2)

\* A check that lets in one class fewer.
ExceedsMaxClassIndexInclusive(index) == index >= MAX_CLASS_INDEX

\* line 98: index > MAX_CLASS_INDEX
ExceedsMaxClassIndex(index) == index > MAX_CLASS_INDEX

\* lines 87-106: validate every declared name and add the ones no way used.
RECURSIVE AddClassNames(_, _)
AddClassNames(class_names, map) ==
    IF class_names = <<>> THEN [error |-> "none", classes_map |-> map]
    ELSE LET name == Head(class_names) IN
         IF ~IsValidClassName(name)
         THEN [error |-> "InvalidClassName", classes_map |-> map]
         ELSE IF name \in DOMAIN map THEN AddClassNames(Tail(class_names), map)
         ELSE IF ExceedsMaxClassIndex(Cardinality(DOMAIN map))
         THEN [error |-> "TooManyClasses", classes_map |-> map]
         ELSE AddClassNames(Tail(class_names),
                            map @@ (name :> GetClassData(Cardinality(DOMAIN map))))

\* lines 83-117: the checks of SetClassNames and the map it leaves.
SetClassNames(class_names, map) ==
    IF class_names # <<>>
    THEN LET added == AddClassNames(class_names, map) IN
         IF added.error # "none" THEN added
         ELSE IF \E name \in DOMAIN added.classes_map : name \notin Range(class_names)
         THEN [error |-> "UnknownClassName", classes_map |-> added.classes_map]
         ELSE added
    ELSE [error |-> "none", classes_map |-> map]

\* lines 119-124: profile_properties.SetClassName(index, name) of every pair
ClassNameTable(map) == {<<ClassIndex(map[name]), name>> : name \in DOMAIN map}

\* A mask that is assigned, not or-ed: the last known name wins.
RECURSIVE CombinationMaskAssigned(_, _)
CombinationMaskAssigned(map, combination) ==
    IF combination = <<>> THEN 0
    ELSE LET rest == CombinationMaskAssigned(map, Tail(combination)) IN
         IF rest # 0 THEN rest
         ELSE IF Head(combination) \in DOMAIN map THEN map[Head(combination)] ELSE 0

\* lines 144-157: the mask of one combination
RECURSIVE CombinationMask(_, _)
CombinationMask(map, combination) ==
    IF combination = <<>> THEN 0
    ELSE LET rest == CombinationMask(map, Tail(combination)) IN
         IF Head(combination) \in DOMAIN map
         THEN BitOr(map[Head(combination)], rest) ELSE rest

\* A loop that saves the mask of every combination.
StoresMaskAlways(mask) == TRUE

\* line 159: mask > 0
StoresMask(mask) == mask > 0

\* lines 141-163: the masks saved from index 1 on
RECURSIVE SavedMasks(_, _)
SavedMasks(map, excludable_classes) ==
    IF excludable_classes = <<>> THEN <<>>
    ELSE LET mask == CombinationMask(map, Head(excludable_classes)) IN
         (IF StoresMask(mask) THEN <<mask>> ELSE <<>>)
         \o SavedMasks(map, Tail(excludable_classes))

\* SetExcludableClasses, lines 128-164: the error or the masks by index
\* (masks[i + 1] is the mask saved at index i).
SetExcludableClasses(map, excludable_classes) ==
    IF Len(excludable_classes) > MAX_EXCLUDABLE_CLASSES
    THEN [error |-> "TooManyExcludable", masks |-> <<>>]
    ELSE [error |-> "none", masks |-> <<0>> \o SavedMasks(map, excludable_classes)]

\* ExtractorCallbacks::ProcessWay: a class a way uses gets the next free bit.
RECURSIVE UseClasses(_, _)
UseClasses(map, names) ==
    IF names = <<>> THEN map
    ELSE IF Head(names) \in DOMAIN map THEN UseClasses(map, Tail(names))
    ELSE UseClasses(map @@ (Head(names) :> GetClassData(Cardinality(DOMAIN map))),
                    Tail(names))

\* The profiles tried: class_names is GetClassNames(), excludable_classes is
\* GetExcludableClasses(), way_classes the classes the profile sets on a way.
ClassName(i) == <<"c", <<"0", "1", "2", "3", "4", "5", "6", "7", "8", "9">>[i]>>

Profiles ==
    { [class_names |-> <<>>, excludable_classes |-> <<>>, way_classes |-> <<>>],
      [class_names |-> <<ClassName(1), ClassName(2)>>,
       excludable_classes |-> << <<ClassName(1)>>, <<ClassName(1), ClassName(2)>> >>,
       way_classes |-> <<ClassName(2)>>],
      [class_names |-> <<ClassName(1), <<"c", "-">> >>,
       excludable_classes |-> <<>>, way_classes |-> <<ClassName(1)>>],
      [class_names |-> [i \in 1..(MAX_CLASS_INDEX + 2) |-> ClassName(i)],
       excludable_classes |-> <<>>, way_classes |-> <<ClassName(1)>>],
      [class_names |-> <<ClassName(1)>>,
       excludable_classes |-> <<>>, way_classes |-> <<ClassName(2)>>],
      [class_names |-> <<ClassName(1)>>,
       excludable_classes |-> [i \in 1..(MAX_EXCLUDABLE_CLASSES + 1) |-> <<ClassName(1)>>],
       way_classes |-> <<ClassName(1)>>] }

\* The inputs of SetClassNames and SetExcludableClasses that are tried.
\* The third name is one no profile declares and no way uses.
DeclaredClassNames == SeqsUpTo({ClassName(1), ClassName(2)}, 2)

UsedClasses ==
    {<<>>, <<ClassName(1)>>, <<ClassName(2)>>, <<ClassName(2), ClassName(1)>>}

Combinations ==
    {<<>>, <<ClassName(1)>>, <<ClassName(3), ClassName(2)>>, <<ClassName(3)>>,
     <<ClassName(1), ClassName(3), ClassName(2)>>}

\* Every short list of combinations, and the lists of up to one combination
\* more than are allowed that mix a combination with a known name and one
\* without.
ExcludableClassLists ==
    SeqsUpTo(Combinations, MaxCombinations)
    \cup SeqsUpTo({<<ClassName(1), ClassName(3)>>, <<ClassName(3)>>},
                  MAX_EXCLUDABLE_CLASSES + 1)

\* The inputs of SetClassNames alone: runs of consecutive valid names, long
\* enough to pass the largest class index.
ClassNameRuns(longest) ==
    {[i \in 1..r[2] |-> ClassName(r[1] + i - 1)] :
        r \in {x \in (1..MaxRunStart) \X (0..longest) :
                  x[1] + x[2] - 1 <= MAX_CLASS_INDEX + 3}}

\* Names that are not class names: a character outside [A-Za-z0-9], and the
\* empty name.
InvalidClassNames == {<<"c", "-">>, <<>>}

\* A run, or a run with one more name in front of it or behind it.
WithOneMore(runs, names) ==
    runs \cup {<<name>> \o run : name \in names, run \in runs}
         \cup {run \o <<name>> : name \in names, run \in runs}

\* GetClassNames(): a run, alone or with an invalid name or a repeated name
DeclaredClassRuns ==
    WithOneMore(ClassNameRuns(MAX_CLASS_INDEX + 2),
                InvalidClassNames \cup {ClassName(2)})

\* The classes the ways used: at most MAX_CLASS_INDEX + 1 names, of which one
\* may be invalid (a way is not held to the pattern).
UsedClassRuns ==
    {used \in WithOneMore(ClassNameRuns(MAX_CLASS_INDEX + 1), {<<"c", "-">>}) :
        Len(used) <= MAX_CLASS_INDEX + 1}

\* The errors that report an invalid profile declaration.
InvalidProfileDeclaration ==
    {"InvalidClassName", "TooManyClasses", "UnknownClassName", "TooManyExcludable"}

-----------------------------------------------------------------------------
(***************************************************************************)
(* The two pipelines of ParseOSMData                                       *)
(*                                                                         *)
(* tbb::parallel_pipeline(num_tokens, f1 & f2 & ...): the first filter     *)
(* makes the tokens, numbered in the order it emits them; at most          *)
(* num_tokens are in flight. A token is [seq, stage, running]: it waits    *)
(* for, or runs, the filter at place `stage` of the pipeline.              *)
(***************************************************************************)

\* line 425
BufferReaderMode == "serial_in_order"

\* line 447
LocationCacherMode == "serial_in_order"

\* line 454
BufferTransformerMode == "parallel"

\* A sink that is a parallel filter.
BufferStorageModeParallel == "parallel"

\* line 472
BufferStorageMode == "serial_in_order"

\* line 494
BufferRelationCacheMode == "parallel"

\* A merge stage that is a parallel filter.
BufferStorageRelationModeParallel == "parallel"

\* line 530
BufferStorageRelationMode == "serial_in_order"

FilterMode(filter) ==
    CASE filter = "buffer_reader" -> BufferReaderMode
      [] filter = "location_cacher" -> LocationCacherMode
      [] filter = "buffer_transformer" -> BufferTransformerMode
      [] filter = "buffer_storage" -> BufferStorageMode
      [] filter = "buffer_relation_cache" -> BufferRelationCacheMode
      [] filter = "buffer_storage_relation" -> BufferStorageRelationMode

\* line 547
RelationsPipeline ==
    <<"buffer_reader", "buffer_relation_cache", "buffer_storage_relation">>

\* lines 557-560
EntitiesPipeline(with_location_cache) ==
    IF with_location_cache
    THEN <<"buffer_reader", "location_cacher", "buffer_transformer", "buffer_storage">>
    ELSE <<"buffer_reader", "buffer_transformer", "buffer_storage">>

\* The pipeline that runs at run_pc, and the number of that phase.
PipelineAt(pc, with_location_cache) ==
    IF pc = "relations_pipeline" THEN RelationsPipeline
    ELSE EntitiesPipeline(with_location_cache)

PhaseAt(pc) == IF pc = "relations_pipeline" THEN 1 ELSE 2

\* tbb::filter: a parallel filter takes any waiting token; a serial filter
\* runs one token at a time, and a serial_in_order one takes the tokens in
\* the order the first filter emitted them.
MayStart(mode, t, toks) ==
    CASE mode = "parallel" -> TRUE
      [] mode = "serial_out_of_order" ->
            ~\E u \in toks : u.stage = t.stage /\ u.running
      [] mode = "serial_in_order" ->
            /\ ~\E u \in toks : u.stage = t.stage /\ u.running
            /\ ~\E u \in toks : u.seq < t.seq /\ u.stage <= t.stage

\* The tokens that are running filter `filter` of the pipeline at pc.
Running(filter, pc, with_location_cache, toks) ==
    {t \in toks : t.running /\ PipelineAt(pc, with_location_cache)[t.stage] = filter}

\* extraction_containers.all_edges_list: the stored buffers that hold a
\* routable way.
AllEdgesList(containers, buffers) ==
    SelectSeq(containers, LAMBDA b : buffers[b + 1])

\* A check that never finds the list empty.
EdgesEmptyNever(list) == FALSE

\* line 573: extraction_containers.all_edges_list.empty()
EdgesEmpty(list) == list = <<>>

-----------------------------------------------------------------------------
(***************************************************************************)
(* Extractor::ParseOSMData after the pipelines, and Extractor::run         *)
(***************************************************************************)

\* A ParseOSMData that validates the profile's classes before PrepareData.
ParseOSMDataStepsValidateFirst ==
    <<"check_edges", "SetClassNames", "SetExcludableClasses", "PrepareData",
      "writeProfileProperties">>

\* lines 571-587, in program order
ParseOSMDataSteps ==
    <<"check_edges", "PrepareData", "SetClassNames", "SetExcludableClasses",
      "writeProfileProperties">>

\* lines 215-324, in program order
RunSteps ==
    <<"NodeBasedGraphFactory", "FindSegregatedNodes", "writeNodes",
      "launch_writer", "BuildEdgeExpandedGraph", "writeSegmentData",
      "writeNodeWeights", "FindComponents", "BuildRTree", "writeNodeData",
      "writeEdgeBasedGraph">>

\* The files a step of run has written when it returns.
FilesOf(name) ==
    CASE name = "writeNodes" -> {".osrm.nbg_nodes"}
      [] name = "BuildEdgeExpandedGraph" -> {".osrm.edges", ".osrm.tls", ".osrm.icd"}
      [] name = "writeSegmentData" -> {".osrm.geometry"}
      [] name = "writeNodeWeights" -> {".osrm.enw"}
      [] name = "BuildRTree" -> {".osrm.ramIndex", ".osrm.fileIndex"}
      [] name = "writeNodeData" -> {".osrm.ebg_nodes"}
      [] name = "writeEdgeBasedGraph" -> {".osrm.ebg"}
      [] OTHER -> {}

\* A run whose graph factory is declared after the future and its guard, and
\* so is destroyed before them.
UnwindOrderFactoryFirst ==
    <<"node_based_graph_factory", "scope_exit_guard",
      "compressed_node_based_graph_writing">>

\* The locals of run in the order they are destroyed when run is left: the
\* reverse of their declarations at lines 248, 246 and 215.
UnwindOrder ==
    <<"scope_exit_guard", "compressed_node_based_graph_writing",
      "node_based_graph_factory">>

\* Is `local` declared when run is left from within step i of RunSteps
\* (i = Len(RunSteps) + 1: by return 0)?
Declared(local, i) ==
    IF local = "node_based_graph_factory" THEN i >= 2 ELSE i >= 4

LocalsAt(i) == SelectSeq(UnwindOrder, LAMBDA local : Declared(local, i))

\* How run ends once its locals are gone.
EndOfRun(err) == IF err = "none" THEN "returned" ELSE "propagated"

-----------------------------------------------------------------------------
(***************************************************************************)
(* Extractor::BuildRTree                                                   *)
(*                                                                         *)
(* A segment is known by its forward segment id. Iterators are offsets     *)
(* from edge_based_node_segments.begin().                                  *)
(***************************************************************************)

\* An in_iter that moves on only past a segment that was kept.
AdvanceInOnlyKept(in, kept) == IF kept THEN in + 1 ELSE in

\* line 776: in_iter++, whether the segment was kept or not
AdvanceIn(in, kept) == in + 1

\* A check that also rejects a single segment.
NewSizeBelowTwo(new_size) == new_size < 2

\* line 779: new_size == 0
NewSizeIsZero(new_size) == new_size = 0

\* lines 771-775: the vector after one pass of the loop body
FilterSegment(segments, startpoint, index, out, in) ==
    IF startpoint[index + 1]
    THEN [segments EXCEPT ![out + 1] = segments[in + 1]]
    ELSE segments

\* line 785: edge_based_node_segments.resize(new_size), new_size <= size()
Resize(segments, new_size) == SubSeq(segments, 1, new_size)

\* lines 788-791: the files the StaticRTree constructor writes
RTreeFiles == {".osrm.ramIndex", ".osrm.fileIndex"}

-----------------------------------------------------------------------------
(***************************************************************************)
(* create_edge_based_edges (Extractor::BuildEdgeExpandedGraph)             *)
(*                                                                         *)
(* A restriction is [id, type, conditional]; a restriction map is the set  *)
(* of the restrictions it indexes.                                         *)
(***************************************************************************)

RestrictionTypes == {"NODE_RESTRICTION", "WAY_RESTRICTION"}

\* The lists of restrictions of the given types, numbered from first_id on.
RestrictionLists(first_id, is_conditional) ==
    {[i \in 1..Len(types) |->
         [id |-> first_id + i - 1, type |-> types[i], conditional |-> is_conditional]] :
       types \in SeqsUpTo(RestrictionTypes, MaxRestrictions)}

\* lines 695-698 and 700-703: the node restrictions of a list
NodeRestrictions(restrictions) ==
    SelectSeq(restrictions, LAMBDA t : t.type = "NODE_RESTRICTION")

\* RestrictionMap(restrictions, IndexNodeByFromAndVia()): indexes every
\* restriction it is given.
RestrictionMap(restrictions) == Range(restrictions)

\* WayRestrictionMap(restrictions): indexes the way restrictions it is given.
WayRestrictionMap(restrictions) ==
    {t \in Range(restrictions) : t.type = "WAY_RESTRICTION"}

\* A via-node map that is built from both lists.
ViaNodeRestrictionMapOfBoth(unconditional, conditional) ==
    RestrictionMap(NodeRestrictions(unconditional \o conditional))

\* lines 694-698 and 705
ViaNodeRestrictionMap(unconditional, conditional) ==
    RestrictionMap(NodeRestrictions(unconditional))

\* line 706
ViaWayRestrictionMap(unconditional, conditional) ==
    WayRestrictionMap(conditional)

\* lines 700-703 and 707-708
ConditionalNodeRestrictionMap(unconditional, conditional) ==
    RestrictionMap(NodeRestrictions(conditional))

-----------------------------------------------------------------------------
(* The idle values: a part of the program a specification does not run *)

SccIdle ==
    /\ number_of_edge_based_nodes = 0
    /\ input_edge_list = <<>>
    /\ input_node_segments = <<>>
    /\ small_component_size = 0
    /\ component_id = <<>>
    /\ scc_pc = "idle"

SegIdle ==
    /\ seg_v1 = <<>>
    /\ seg_v2 = <<>>
    /\ seg_current = [name |-> 0, road_class |-> 0, road_priority_class |-> "OTHER"]
    /\ seg_length = 0
    /\ seg_result = FALSE
    /\ seg_mirror = FALSE
    /\ seg_pc = "idle"

FsnIdle ==
    /\ fsn_roads = <<>>
    /\ fsn_index = 0
    /\ segregated_edges = {}
    /\ fsn_pc = "idle"

RunIdle ==
    /\ profile = <<>>
    /\ use_locations_cache = FALSE
    /\ num_tokens = 0
    /\ relation_buffers = 0
    /\ entity_buffers = <<>>
    /\ run_pc = "idle"
    /\ step = 0
    /\ tokens = {}
    /\ buffers_read = <<0, 0>>
    /\ reader_stopped = FALSE
    /\ relations = <<>>
    /\ extraction_containers = <<>>
    /\ classes_map = <<>>
    /\ transformed = <<>>
    /\ profile_properties = [class_names |-> {}, excludable_classes |-> <<>>]
    /\ written = {}
    /\ error = "none"
    /\ locals = <<>>
    /\ node_based_graph_factory = "none"
    /\ writer = "none"

RtreeIdle ==
    /\ segments_on_entry = <<>>
    /\ edge_based_node_segments = <<>>
    /\ node_is_startpoint = <<>>
    /\ rtree_index = 0
    /\ out_iter = 0
    /\ in_iter = 0
    /\ rtree_files = {}
    /\ rtree_error = "none"
    /\ rtree_pc = "idle"

ClsIdle ==
    /\ cls_class_names = <<>>
    /\ cls_used_classes = <<>>
    /\ cls_excludable_classes = <<>>
    /\ cls_classes_map = <<>>
    /\ cls_masks = <<>>
    /\ cls_error = "none"
    /\ cls_pc = "idle"

RstIdle ==
    /\ turn_restrictions = <<>>
    /\ conditional_turn_restrictions = <<>>
    /\ via_node_restriction_map = {}
    /\ via_way_restriction_map = {}
    /\ conditional_node_restriction_map = {}
    /\ rst_pc = "idle"

-----------------------------------------------------------------------------
(* Specification SpecSCC: FindComponents on every input within the bounds *)

InitSCC ==
    /\ RstIdle
    /\ ClsIdle
    /\ RtreeIdle
    /\ number_of_edge_based_nodes \in 1..MaxEBN
    /\ input_edge_list \in
           SeqsUpTo(EdgeBasedEdges(number_of_edge_based_nodes), MaxEdges)
    /\ input_node_segments \in
           SeqsUpTo(EdgeBasedNodeSegments(number_of_edge_based_nodes), MaxSegments)
    /\ small_component_size \in 1..(MaxEBN + 1)
    /\ component_id = <<>>
    /\ scc_pc = "input"
    /\ SegIdle
    /\ FsnIdle
    /\ RunIdle

\* Extractor::FindComponents, lines 597-653
FindComponents ==
    /\ scc_pc = "input"
    /\ component_id' = Labels(number_of_edge_based_nodes, input_edge_list,
                              input_node_segments, small_component_size)
    /\ scc_pc' = "done"
    /\ UNCHANGED <<number_of_edge_based_nodes, input_edge_list,
                   input_node_segments, small_component_size>>
    /\ UNCHANGED <<segVars, fsnVars, runVars, rtreeVars, clsVars, rstVars>>

NextSCC == FindComponents

SpecSCC == InitSCC /\ [][NextSCC]_vars

-----------------------------------------------------------------------------
(* Specification SpecSeg: IsSegregated on every input within the bounds *)

InitSeg ==
    /\ RstIdle
    /\ ClsIdle
    /\ RtreeIdle
    /\ seg_v1 \in NeighborLists(MaxNeighbors)
    /\ seg_v2 \in NeighborLists(MaxNeighbors)
    /\ seg_current \in EdgeInfo(0..MaxName, {0}, {"PRIMARY"})
    /\ seg_length \in EdgeLengths
    /\ seg_result = FALSE
    /\ seg_mirror = FALSE
    /\ seg_pc = "input"
    /\ SccIdle
    /\ FsnIdle
    /\ RunIdle

\* IsSegregated(v1, v2, current, edgeLength), lines 860-952, and the call for
\* the mirror edge, which gets the same two lists the other way round
\* (isSegregatedFn, lines 1032-1042).
IsSegregated ==
    /\ seg_pc = "input"
    /\ IF TooFewNeighbors(seg_v1, seg_v2)
       THEN /\ seg_result' = FALSE
            /\ seg_mirror' = FALSE
            /\ UNCHANGED <<seg_v1, seg_v2>>
       ELSE \E s1 \in SortByName(seg_v1), s2 \in SortByName(seg_v2) :
                /\ seg_v1' = s1
                /\ seg_v2' = s2
                /\ seg_result' = IsSegregatedSorted(s1, s2, seg_current, seg_length)
                /\ seg_mirror' = IsSegregatedSorted(s2, s1, seg_current, seg_length)
    /\ seg_pc' = "done"
    /\ UNCHANGED <<seg_current, seg_length>>
    /\ UNCHANGED <<sccVars, fsnVars, runVars, rtreeVars, clsVars, rstVars>>

NextSeg == IsSegregated

SpecSeg == InitSeg /\ [][NextSeg]_vars

-----------------------------------------------------------------------------
(* Specification SpecFSN: FindSegregatedNodes on the carriageway scenario *)

InitFSN ==
    /\ RstIdle
    /\ ClsIdle
    /\ RtreeIdle
    /\ \E p \in ScenarioParameters : fsn_roads = ScenarioRoads(p)
    /\ fsn_index = 1
    /\ segregated_edges = {}
    /\ fsn_pc = "loop"
    /\ SccIdle
    /\ SegIdle
    /\ RunIdle

\* One pass of the body of the loops of lines 1046-1063.
FindSegregatedNodesStep ==
    /\ fsn_pc = "loop"
    /\ LET ids == EdgeIDsFrom(fsn_roads, 0)
           edgeID == ids[fsn_index]
           sourceID == edgeID[1]
           sourceEdges == AdjacentEdges(fsn_roads, sourceID)
           edgeData == sourceEdges[edgeID[2]]
           targetID == edgeData.target
           targetEdges == AdjacentEdges(fsn_roads, targetID)
       IN  /\ IF edgeData.reversed
              THEN UNCHANGED segregated_edges
              ELSE \E verdict \in IsSegregatedFn(edgeData, sourceEdges, sourceID,
                                                 targetEdges, targetID,
                                                 edgeData.length) :
                       segregated_edges' =
                           IF InsertsEdge(verdict)
                           THEN segregated_edges \cup {edgeID}
                           ELSE segregated_edges
           /\ fsn_index' = fsn_index + 1
           /\ fsn_pc' = IF fsn_index = Len(ids) THEN "done" ELSE "loop"
    /\ UNCHANGED fsn_roads
    /\ UNCHANGED <<sccVars, segVars, runVars, rtreeVars, clsVars, rstVars>>

NextFSN == FindSegregatedNodesStep

SpecFSN == InitFSN /\ [][NextFSN]_vars

-----------------------------------------------------------------------------
(* Specification Spec: Extractor::run, ParseOSMData and its two pipelines *)

Init ==
    /\ RstIdle
    /\ ClsIdle
    /\ RtreeIdle
    /\ SccIdle
    /\ SegIdle
    /\ FsnIdle
    /\ profile \in Profiles
    /\ use_locations_cache \in BOOLEAN
    /\ num_tokens \in 1..MaxTokens
    /\ relation_buffers \in 0..MaxBuffers
    /\ entity_buffers \in SeqsUpTo(BOOLEAN, MaxBuffers)
    /\ run_pc = "header"
    /\ step = 0
    /\ tokens = {}
    /\ buffers_read = <<0, 0>>
    /\ reader_stopped = FALSE
    /\ relations = <<>>
    /\ extraction_containers = <<>>
    /\ classes_map = <<>>
    /\ transformed = <<>>
    /\ profile_properties = [class_names |-> {}, excludable_classes |-> <<>>]
    /\ written = {}
    /\ error = "none"
    /\ locals = <<>>
    /\ node_based_graph_factory = "none"
    /\ writer = "none"

\* lines 364-387: the header is parsed and the timestamp file written.
ParseHeader ==
    /\ run_pc = "header"
    /\ written' = written \cup {".osrm.timestamp"}
    /\ run_pc' = "relations_pipeline"
    /\ UNCHANGED <<rstVars, clsVars, rtreeVars, sccVars, segVars, fsnVars, runInputs, step, tokens,
                   buffers_read, reader_stopped, relations,
                   extraction_containers, classes_map, transformed,
                   profile_properties, error, locals,
                   node_based_graph_factory, writer>>

\* buffer_reader, lines 423-436: the next buffer becomes a token, or the
\* input is at its end and the filter stops the pipeline's input.
ReadBuffer ==
    /\ run_pc \in {"relations_pipeline", "entities_pipeline"}
    /\ ~reader_stopped
    /\ Cardinality(tokens) < num_tokens
    /\ LET phase == PhaseAt(run_pc)
           available == IF phase = 1 THEN relation_buffers ELSE Len(entity_buffers)
       IN  IF buffers_read[phase] < available
           THEN /\ tokens' = tokens \cup
                       {[seq |-> buffers_read[phase], stage |-> 2, running |-> FALSE]}
                /\ buffers_read' = [buffers_read EXCEPT ![phase] = @ + 1]
                /\ UNCHANGED reader_stopped
           ELSE /\ reader_stopped' = TRUE
                /\ UNCHANGED <<tokens, buffers_read>>
    /\ UNCHANGED <<rstVars, clsVars, rtreeVars, sccVars, segVars, fsnVars, runInputs, run_pc, step, relations,
                   extraction_containers, classes_map, transformed,
                   profile_properties, written, error, locals,
                   node_based_graph_factory, writer>>

\* A worker takes token t into the filter it waits for.
FilterBegin(t) ==
    /\ run_pc \in {"relations_pipeline", "entities_pipeline"}
    /\ t \in tokens
    /\ ~t.running
    /\ MayStart(FilterMode(PipelineAt(run_pc, use_locations_cache)[t.stage]), t, tokens)
    /\ tokens' = (tokens \ {t}) \cup {[t EXCEPT !.running = TRUE]}
    /\ UNCHANGED <<rstVars, clsVars, rtreeVars, sccVars, segVars, fsnVars, runInputs, run_pc, step,
                   buffers_read, reader_stopped, relations,
                   extraction_containers, classes_map, transformed,
                   profile_properties, written, error, locals,
                   node_based_graph_factory, writer>>

\* The filter token t runs returns: buffer_storage_relation has merged the
\* token's relations (line 534), buffer_transformer has parsed the buffer
\* (lines 456-464), buffer_storage has passed its results to the callbacks
\* (lines 474-490).
FilterEnd(t) ==
    /\ run_pc \in {"relations_pipeline", "entities_pipeline"}
    /\ t \in tokens
    /\ t.running
    /\ LET pipeline == PipelineAt(run_pc, use_locations_cache)
           filter == pipeline[t.stage]
       IN  /\ tokens' = (tokens \ {t}) \cup
                  (IF t.stage < Len(pipeline)
                   THEN {[seq |-> t.seq, stage |-> t.stage + 1, running |-> FALSE]}
                   ELSE {})
           /\ relations' = IF filter = "buffer_storage_relation"
                           THEN Append(relations, t.seq) ELSE relations
           /\ transformed' = IF filter = "buffer_transformer"
                             THEN Append(transformed, t.seq) ELSE transformed
           /\ extraction_containers' = IF filter = "buffer_storage"
                                       THEN Append(extraction_containers, t.seq)
                                       ELSE extraction_containers
           /\ classes_map' = IF filter = "buffer_storage" /\ entity_buffers[t.seq + 1]
                             THEN UseClasses(classes_map, profile.way_classes)
                             ELSE classes_map
    /\ UNCHANGED <<rstVars, clsVars, rtreeVars, sccVars, segVars, fsnVars, runInputs, run_pc, step,
                   buffers_read, reader_stopped, profile_properties, written,
                   error, locals, node_based_graph_factory, writer>>

\* tbb::parallel_pipeline returns (lines 547, 561) when its input has
\* stopped and no token is in flight.
PipelineReturn ==
    /\ run_pc \in {"relations_pipeline", "entities_pipeline"}
    /\ reader_stopped
    /\ tokens = {}
    /\ IF run_pc = "relations_pipeline"
       THEN /\ run_pc' = "entities_pipeline"
            /\ reader_stopped' = FALSE
            /\ UNCHANGED step
       ELSE /\ run_pc' = "ParseOSMData"
            /\ step' = 1
            /\ UNCHANGED reader_stopped
    /\ UNCHANGED <<rstVars, clsVars, rtreeVars, sccVars, segVars, fsnVars, runInputs, tokens, buffers_read,
                   relations, extraction_containers, classes_map, transformed,
                   profile_properties, written, error, locals,
                   node_based_graph_factory, writer>>

\* An exception leaves ParseOSMData and, no local of run being declared yet
\* that waits for anything, run.
ThrowFromParseOSMData(err) ==
    /\ error' = err
    /\ run_pc' = "propagated"
    /\ UNCHANGED step

\* The next statement of lines 571-587.
ParseOSMDataStep ==
    /\ run_pc = "ParseOSMData"
    /\ LET name == ParseOSMDataSteps[step]
           continue == /\ error' = error
                       /\ IF step < Len(ParseOSMDataSteps)
                          THEN step' = step + 1 /\ run_pc' = run_pc
                          ELSE step' = 1 /\ run_pc' = "run"
       IN  CASE name = "check_edges" ->
                  /\ IF EdgesEmpty(AllEdgesList(extraction_containers, entity_buffers))
                     THEN ThrowFromParseOSMData("NoEdges")
                     ELSE continue
                  /\ UNCHANGED <<classes_map, profile_properties, written>>
             [] name = "PrepareData" ->
                  /\ written' = written \cup {".osrm", ".osrm.names"}
                  /\ continue
                  /\ UNCHANGED <<classes_map, profile_properties>>
             [] name = "SetClassNames" ->
                  LET result == SetClassNames(profile.class_names, classes_map) IN
                  /\ classes_map' = result.classes_map
                  /\ IF result.error # "none"
                     THEN /\ ThrowFromParseOSMData(result.error)
                          /\ UNCHANGED profile_properties
                     ELSE /\ continue
                          /\ profile_properties' =
                                 [profile_properties EXCEPT
                                     !.class_names = ClassNameTable(result.classes_map)]
                  /\ UNCHANGED written
             [] name = "SetExcludableClasses" ->
                  LET result == SetExcludableClasses(classes_map,
                                                     profile.excludable_classes) IN
                  /\ IF result.error # "none"
                     THEN /\ ThrowFromParseOSMData(result.error)
                          /\ UNCHANGED profile_properties
                     ELSE /\ continue
                          /\ profile_properties' =
                                 [profile_properties EXCEPT
                                     !.excludable_classes = result.masks]
                  /\ UNCHANGED <<classes_map, written>>
             [] name = "writeProfileProperties" ->
                  /\ written' = written \cup {".osrm.properties"}
                  /\ continue
                  /\ UNCHANGED <<classes_map, profile_properties>>
    /\ UNCHANGED <<rstVars, clsVars, rtreeVars, sccVars, segVars, fsnVars, runInputs, tokens, buffers_read,
                   reader_stopped, relations, extraction_containers, transformed,
                   locals, node_based_graph_factory, writer>>

\* run is left from within step i with error err (i = Len(RunSteps) + 1 and
\* err = "none": by return 0): its locals are destroyed, last declared first.
LeaveRun(i, err) ==
    /\ error' = err
    /\ locals' = LocalsAt(i)
    /\ run_pc' = IF LocalsAt(i) = <<>> THEN EndOfRun(err) ELSE "unwind"

\* The next statement of lines 215-324 completes.
RunStep ==
    /\ run_pc = "run"
    /\ LET name == RunSteps[step] IN
       /\ node_based_graph_factory' =
              IF name = "NodeBasedGraphFactory" THEN "alive" ELSE node_based_graph_factory
       /\ writer' = IF name = "launch_writer" THEN "running" ELSE writer
       /\ written' = written \cup FilesOf(name)
    /\ IF step < Len(RunSteps)
       THEN /\ step' = step + 1
            /\ UNCHANGED <<run_pc, error, locals>>
       ELSE /\ LeaveRun(step + 1, "none")
            /\ UNCHANGED step
    /\ UNCHANGED <<rstVars, clsVars, rtreeVars, sccVars, segVars, fsnVars, runInputs, pipelineVars,
                   extraction_containers, classes_map, transformed,
                   profile_properties>>

\* The next statement of lines 215-324 throws (std::async at line 254 too:
\* the future then stays invalid).
RunStepThrows ==
    /\ run_pc = "run"
    /\ LeaveRun(step, "StepFailed")
    /\ UNCHANGED <<rstVars, clsVars, rtreeVars, sccVars, segVars, fsnVars, runInputs, pipelineVars, step,
                   extraction_containers, classes_map, transformed,
                   profile_properties, written, node_based_graph_factory, writer>>

\* The task launched at lines 254-257 has written the compressed graph.
WriterCompletes ==
    /\ writer = "running"
    /\ writer' = "done"
    /\ written' = written \cup {".osrm.cnbg"}
    /\ UNCHANGED <<rstVars, clsVars, rtreeVars, sccVars, segVars, fsnVars, runInputs, pipelineVars, run_pc,
                   step, extraction_containers, classes_map, transformed,
                   profile_properties, error, locals, node_based_graph_factory>>

\* The next local of run is destroyed. The scope-exit guard waits if the
\* future is valid (lines 250-251); the destructor of a future that
\* std::async returned waits as well.
Unwind ==
    /\ run_pc = "unwind"
    /\ LET local == Head(locals) IN
       /\ local \in {"scope_exit_guard", "compressed_node_based_graph_writing"}
            => writer # "running"
       /\ node_based_graph_factory' =
              IF local = "node_based_graph_factory" THEN "destroyed"
              ELSE node_based_graph_factory
    /\ locals' = Tail(locals)
    /\ run_pc' = IF Tail(locals) = <<>> THEN EndOfRun(error) ELSE run_pc
    /\ UNCHANGED <<rstVars, clsVars, rtreeVars, sccVars, segVars, fsnVars, runInputs, pipelineVars, step,
                   extraction_containers, classes_map, transformed,
                   profile_properties, written, error, writer>>

Next ==
    \/ ParseHeader
    \/ ReadBuffer
    \/ \E t \in tokens : FilterBegin(t)
    \/ \E t \in tokens : FilterEnd(t)
    \/ PipelineReturn
    \/ ParseOSMDataStep
    \/ RunStep
    \/ RunStepThrows
    \/ WriterCompletes
    \/ Unwind

Spec == Init /\ [][Next]_vars

-----------------------------------------------------------------------------
(* Specification SpecRTree: BuildRTree on every input within the bounds *)

\* The two vectors have the same length on entry (line 765).
InitRTree ==
    /\ RstIdle
    /\ ClsIdle
    /\ SccIdle
    /\ SegIdle
    /\ FsnIdle
    /\ RunIdle
    /\ segments_on_entry \in SeqsUpTo(0..(MaxEBN - 1), MaxRTreeSegments)
    /\ edge_based_node_segments = segments_on_entry
    /\ node_is_startpoint \in [1..Len(segments_on_entry) -> BOOLEAN]
    /\ rtree_index = 0
    /\ out_iter = 0
    /\ in_iter = 0
    /\ rtree_files = {}
    /\ rtree_error = "none"
    /\ rtree_pc = "filter"

\* One pass of the loop of lines 768-777.
BuildRTreeFilter ==
    /\ rtree_pc = "filter"
    /\ rtree_index < Len(node_is_startpoint)
    /\ edge_based_node_segments' =
           FilterSegment(edge_based_node_segments, node_is_startpoint,
                         rtree_index, out_iter, in_iter)
    /\ out_iter' = IF node_is_startpoint[rtree_index + 1] THEN out_iter + 1 ELSE out_iter
    /\ in_iter' = AdvanceIn(in_iter, node_is_startpoint[rtree_index + 1])
    /\ rtree_index' = rtree_index + 1
    /\ UNCHANGED <<segments_on_entry, node_is_startpoint, rtree_files,
                   rtree_error, rtree_pc>>
    /\ UNCHANGED <<rstVars, clsVars, sccVars, segVars, fsnVars, runVars>>

\* Lines 778-785: the check of new_size and the resize.
BuildRTreeResize ==
    /\ rtree_pc = "filter"
    /\ rtree_index = Len(node_is_startpoint)
    /\ LET new_size == out_iter IN
       IF NewSizeIsZero(new_size)
       THEN /\ rtree_error' = "NoSnappableEdges"
            /\ rtree_pc' = "failed"
            /\ UNCHANGED edge_based_node_segments
       ELSE /\ edge_based_node_segments' = Resize(edge_based_node_segments, new_size)
            /\ rtree_pc' = "construct"
            /\ UNCHANGED rtree_error
    /\ UNCHANGED <<segments_on_entry, node_is_startpoint, rtree_index, out_iter,
                   in_iter, rtree_files>>
    /\ UNCHANGED <<rstVars, clsVars, sccVars, segVars, fsnVars, runVars>>

\* Lines 788-791: the StaticRTree constructor builds the tree and writes it.
ConstructRTree ==
    /\ rtree_pc = "construct"
    /\ rtree_files' = RTreeFiles
    /\ rtree_pc' = "done"
    /\ UNCHANGED <<segments_on_entry, edge_based_node_segments,
                   node_is_startpoint, rtree_index, out_iter, in_iter, rtree_error>>
    /\ UNCHANGED <<rstVars, clsVars, sccVars, segVars, fsnVars, runVars>>

\* Lines 788-791: the StaticRTree constructor throws; some of its files may
\* exist by then.
ConstructRTreeThrows ==
    /\ rtree_pc = "construct"
    /\ \E files \in SUBSET RTreeFiles : rtree_files' = files
    /\ rtree_error' = "StepFailed"
    /\ rtree_pc' = "failed"
    /\ UNCHANGED <<segments_on_entry, edge_based_node_segments,
                   node_is_startpoint, rtree_index, out_iter, in_iter>>
    /\ UNCHANGED <<rstVars, clsVars, sccVars, segVars, fsnVars, runVars>>

NextRTree ==
    \/ BuildRTreeFilter
    \/ BuildRTreeResize
    \/ ConstructRTree
    \/ ConstructRTreeThrows

SpecRTree == InitRTree /\ [][NextRTree]_vars

-----------------------------------------------------------------------------
(* Claims about BuildRTree (checked under SpecRTree) *)

\* The indices of the start-point-eligible segments.
EligibleIndices == {i \in 1..Len(node_is_startpoint) : node_is_startpoint[i]}

\* The k-th smallest element of a set of numbers.
KthSmallest(S, k) == CHOOSE x \in S : Cardinality({y \in S : y < x}) = k - 1

\* The eligible segments on entry, in their order on entry.
EligibleOnEntry ==
    [k \in 1..Cardinality(EligibleIndices) |->
        segments_on_entry[KthSmallest(EligibleIndices, k)]]

\* C11: the vector BuildRTree hands to the R-tree is exactly the subsequence
\* of the segments on entry whose flag in node_is_startpoint is true, in
\* their order on entry; its length is the number of true flags.
C11_CompactsToEligible ==
    rtree_pc \in {"construct", "done"}
        => /\ edge_based_node_segments = EligibleOnEntry
           /\ Len(edge_based_node_segments) = Cardinality(EligibleIndices)

C11_Witness ==
    /\ rtree_pc = "done"
    /\ node_is_startpoint = <<FALSE, TRUE, TRUE>>
    /\ segments_on_entry = <<0, 1, 2>>
    /\ edge_based_node_segments = <<1, 2>>

\* C12: BuildRTree raises the no-snappable-edges error exactly when no flag
\* of node_is_startpoint is true (an empty vector included), and then
\* neither R-tree file has been written.
C12_FatalIffNoneEligible ==
    /\ rtree_pc \in {"construct", "done", "failed"}
          => (rtree_error = "NoSnappableEdges" <=> EligibleIndices = {})
    /\ rtree_error = "NoSnappableEdges" => rtree_files = {} /\ rtree_pc = "failed"
    /\ EligibleIndices = {} => rtree_files = {}

C12_Witness ==
    /\ rtree_error = "NoSnappableEdges"
    /\ Len(segments_on_entry) = 2

-----------------------------------------------------------------------------
(* Specification SpecClasses: SetClassNames and SetExcludableClasses as     *)
(* ParseOSMData calls them (lines 583-586), on every input within the bounds *)

InitClasses ==
    /\ RstIdle
    /\ SccIdle
    /\ SegIdle
    /\ FsnIdle
    /\ RunIdle
    /\ RtreeIdle
    /\ cls_class_names \in DeclaredClassNames
    /\ cls_used_classes \in UsedClasses
    /\ cls_excludable_classes \in ExcludableClassLists
    /\ cls_classes_map = UseClasses(<<>>, cls_used_classes)
    /\ cls_masks = <<>>
    /\ cls_error = "none"
    /\ cls_pc = "SetClassNames"

\* line 584
SetClassNamesCall ==
    /\ cls_pc = "SetClassNames"
    /\ LET result == SetClassNames(cls_class_names, cls_classes_map) IN
       /\ cls_classes_map' = result.classes_map
       /\ cls_error' = result.error
       /\ cls_pc' = IF result.error = "none" THEN "SetExcludableClasses" ELSE "failed"
    /\ UNCHANGED <<cls_class_names, cls_used_classes, cls_excludable_classes,
                   cls_masks>>
    /\ UNCHANGED <<rstVars, sccVars, segVars, fsnVars, runVars, rtreeVars>>

\* lines 585-586
SetExcludableClassesCall ==
    /\ cls_pc = "SetExcludableClasses"
    /\ LET result == SetExcludableClasses(cls_classes_map, cls_excludable_classes) IN
       /\ cls_masks' = result.masks
       /\ cls_error' = result.error
       /\ cls_pc' = IF result.error = "none" THEN "done" ELSE "failed"
    /\ UNCHANGED <<cls_class_names, cls_used_classes, cls_excludable_classes,
                   cls_classes_map>>
    /\ UNCHANGED <<rstVars, sccVars, segVars, fsnVars, runVars, rtreeVars>>

NextClasses ==
    \/ SetClassNamesCall
    \/ SetExcludableClassesCall

SpecClasses == InitClasses /\ [][NextClasses]_vars

-----------------------------------------------------------------------------
(* Specification SpecClassNames: SetClassNames on long and on invalid lists *)
(* of class names, with no excludable combination                          *)

InitClassNames ==
    /\ RstIdle
    /\ SccIdle
    /\ SegIdle
    /\ FsnIdle
    /\ RunIdle
    /\ RtreeIdle
    /\ cls_class_names \in DeclaredClassRuns
    /\ cls_used_classes \in UsedClassRuns
    /\ cls_excludable_classes = <<>>
    /\ cls_classes_map = UseClasses(<<>>, cls_used_classes)
    /\ cls_masks = <<>>
    /\ cls_error = "none"
    /\ cls_pc = "SetClassNames"

SpecClassNames == InitClassNames /\ [][NextClasses]_vars

-----------------------------------------------------------------------------
(* Claims about SetClassNames and SetExcludableClasses (checked under      *)
(* SpecClasses)                                                            *)

\* C13 as stated: for every accepted list of combinations index 0 holds the
\* empty mask and every index written is below MAX_EXCLUDABLE_CLASSES, that
\* is at most MAX_EXCLUDABLE_CLASSES masks are saved, index 0 included.
C13_Original ==
    cls_pc = "done"
        => /\ cls_masks[1] = 0
           /\ \A index \in 0..(Len(cls_masks) - 1) : index < MAX_EXCLUDABLE_CLASSES

\* The names of a combination that the classes map knows.
KnownNames(combination) ==
    {name \in Range(combination) : name \in DOMAIN cls_classes_map}

\* The union of the one-bit masks of a set of known names.
RECURSIVE MaskOfNames(_)
MaskOfNames(known) ==
    IF known = {} THEN 0
    ELSE LET name == CHOOSE n \in known : TRUE IN
         cls_classes_map[name] + MaskOfNames(known \ {name})

\* The combinations with at least one known name, in the profile's order.
CombinationsWithKnownName ==
    SelectSeq(cls_excludable_classes, LAMBDA c : KnownNames(c) # {})

\* C14: SetExcludableClasses raises only for a list that is too long, never
\* for an unknown name; the masks it stores from index 1 on are, in the
\* profile's order and without a gap, those of the combinations that have a
\* known name, each the union of the masks of its known names.
C14_UnknownNamesIgnored ==
    /\ cls_error = "TooManyExcludable"
          => Len(cls_excludable_classes) > MAX_EXCLUDABLE_CLASSES
    /\ cls_pc = "done"
          => /\ Len(cls_excludable_classes) <= MAX_EXCLUDABLE_CLASSES
             /\ cls_masks = <<0>> \o [i \in 1..Len(CombinationsWithKnownName) |->
                                        MaskOfNames(KnownNames(CombinationsWithKnownName[i]))]

C14_Witness ==
    /\ cls_pc = "done"
    /\ cls_excludable_classes = << <<ClassName(3), ClassName(2)>>, <<ClassName(3)>>,
                                   <<ClassName(1), ClassName(3), ClassName(2)>> >>
    /\ cls_masks = <<0, 2, 3>>

\* C15 as stated: when no class name is declared, classes_map is empty after
\* SetClassNames and SetExcludableClasses writes index 0 only.
C15_Original ==
    cls_class_names = <<>> /\ cls_pc \in {"SetExcludableClasses", "done", "failed"}
        => /\ cls_classes_map = <<>>
           /\ \A index \in 1..(Len(cls_masks) - 1) : FALSE

\* C15 as amended: when no class name is declared and no way used a class,
\* classes_map is empty after SetClassNames and SetExcludableClasses writes
\* index 0 only (and nothing when it rejects the list as too long).
C15_NoClassesOnlyIndexZero ==
    (/\ cls_class_names = <<>>
     /\ cls_used_classes = <<>>
     /\ cls_pc \in {"SetExcludableClasses", "done", "failed"})
        => /\ cls_classes_map = <<>>
           /\ cls_pc = "done" => cls_masks = <<0>>
           /\ cls_pc = "failed" => cls_masks = <<>> /\ cls_error = "TooManyExcludable"

C15_Witness ==
    /\ cls_class_names = <<>>
    /\ cls_used_classes = <<>>
    /\ cls_pc = "done"
    /\ Len(cls_excludable_classes) = 3
    /\ cls_masks = <<0>>

-----------------------------------------------------------------------------
(* Claims about SetClassNames (checked under SpecClassNames) *)

\* The names classes_map held when SetClassNames was called.
NamesOnEntry == Range(cls_used_classes)

\* The three reasons of C21 for SetClassNames to fail.
DeclaresInvalidName == \E name \in Range(cls_class_names) : ~IsValidClassName(name)

UnionTooLarge ==
    Cardinality(Range(cls_class_names) \cup NamesOnEntry) > MAX_CLASS_INDEX + 1

UsedUndeclaredName == \E name \in NamesOnEntry : name \notin Range(cls_class_names)

SingleBitMasks == {2 ^ i : i \in 0..MAX_CLASS_INDEX}

\* C21: with a non-empty declared class list and a classes_map whose entries
\* use the indices 0..size-1, SetClassNames fails exactly when a declared
\* name is invalid, or the declared names and the names of classes_map are
\* more than MAX_CLASS_INDEX+1 together, or classes_map has a name that is
\* not declared; when it succeeds the keys of classes_map are the declared
\* names and different names have different single-bit masks.
C21_FailsIffInvalidTooManyOrUndeclared ==
    (cls_pc # "SetClassNames" /\ cls_class_names # <<>>)
        => /\ (cls_pc = "failed")
                <=> (DeclaresInvalidName \/ UnionTooLarge \/ UsedUndeclaredName)
           /\ cls_pc # "failed"
                => /\ DOMAIN cls_classes_map = Range(cls_class_names)
                   /\ \A name \in DOMAIN cls_classes_map :
                          cls_classes_map[name] \in SingleBitMasks
                   /\ \A a, b \in DOMAIN cls_classes_map :
                          a # b => cls_classes_map[a] # cls_classes_map[b]

\* C21 witness: SetClassNames has failed on valid declared names that cover
\* the names the ways used and are one more than fit, and has stopped with
\* a full classes_map.
C21_Witness ==
    /\ cls_pc = "failed"
    /\ cls_error = "TooManyClasses"
    /\ ~DeclaresInvalidName
    /\ ~UsedUndeclaredName
    /\ NamesOnEntry # {}
    /\ Cardinality(Range(cls_class_names)) = MAX_CLASS_INDEX + 2
    /\ Cardinality(DOMAIN cls_classes_map) = MAX_CLASS_INDEX + 1

-----------------------------------------------------------------------------
(* Specification SpecRestrictions: the restriction maps that                *)
(* create_edge_based_edges hands to the edge-based graph factory           *)

InitRestrictions ==
    /\ SccIdle
    /\ SegIdle
    /\ FsnIdle
    /\ RunIdle
    /\ RtreeIdle
    /\ ClsIdle
    /\ turn_restrictions \in RestrictionLists(1, FALSE)
    /\ conditional_turn_restrictions \in RestrictionLists(MaxRestrictions + 1, TRUE)
    /\ via_node_restriction_map = {}
    /\ via_way_restriction_map = {}
    /\ conditional_node_restriction_map = {}
    /\ rst_pc = "input"

\* lines 693-709: the three maps passed to edge_based_graph_factory.Run
CreateEdgeBasedEdges ==
    /\ rst_pc = "input"
    /\ via_node_restriction_map' =
           ViaNodeRestrictionMap(turn_restrictions, conditional_turn_restrictions)
    /\ via_way_restriction_map' =
           ViaWayRestrictionMap(turn_restrictions, conditional_turn_restrictions)
    /\ conditional_node_restriction_map' =
           ConditionalNodeRestrictionMap(turn_restrictions,
                                         conditional_turn_restrictions)
    /\ rst_pc' = "done"
    /\ UNCHANGED <<turn_restrictions, conditional_turn_restrictions>>
    /\ UNCHANGED <<sccVars, segVars, fsnVars, runVars, rtreeVars, clsVars>>

NextRestrictions == CreateEdgeBasedEdges

SpecRestrictions == InitRestrictions /\ [][NextRestrictions]_vars

-----------------------------------------------------------------------------
(* Claims about create_edge_based_edges (checked under SpecRestrictions) *)

\* The restrictions of a type among both lists handed to edge expansion.
RestrictionsOfType(type) ==
    {t \in Range(turn_restrictions) \cup Range(conditional_turn_restrictions) :
        t.type = type}

\* C16 as stated: every way restriction of turn_restrictions and of
\* conditional_turn_restrictions is indexed in the WayRestrictionMap passed
\* to edge expansion.
C16_Original ==
    rst_pc = "done" => RestrictionsOfType("WAY_RESTRICTION") \subseteq via_way_restriction_map

\* C17: the via-node restriction map holds exactly the node restrictions of
\* the unconditional list and no conditional restriction; every conditional
\* node restriction is in the conditional restriction map.
C17_ConditionalNeverUnconditional ==
    rst_pc = "done"
        => /\ via_node_restriction_map =
                  {t \in RestrictionsOfType("NODE_RESTRICTION") : ~t.conditional}
           /\ via_node_restriction_map \cap Range(conditional_turn_restrictions) = {}
           /\ {t \in RestrictionsOfType("NODE_RESTRICTION") : t.conditional}
                  \subseteq conditional_node_restriction_map

C17_Witness ==
    /\ rst_pc = "done"
    /\ Cardinality(via_node_restriction_map) = 2
    /\ Cardinality(conditional_node_restriction_map) = 2
    /\ Len(conditional_turn_restrictions) = 3

-----------------------------------------------------------------------------
(* Specification SpecAssert: FindComponents, built with assertions, on edge *)
(* lists that need not keep its contract                                   *)

InitAssert ==
    /\ SegIdle
    /\ FsnIdle
    /\ RunIdle
    /\ RtreeIdle
    /\ ClsIdle
    /\ RstIdle
    /\ number_of_edge_based_nodes \in 1..MaxEBN
    /\ input_edge_list \in
           SeqsUpTo(UncheckedEdgeBasedEdges(number_of_edge_based_nodes), MaxEdges)
    /\ input_node_segments = <<>>
    /\ small_component_size = 1
    /\ component_id = <<>>
    /\ scc_pc = "input"

\* Extractor::FindComponents, lines 597-653: a failing assertion of the edge
\* loop aborts, otherwise the nodes are labelled.
FindComponentsAsserting ==
    /\ scc_pc = "input"
    /\ IF EntryAssertionsHold(number_of_edge_based_nodes, input_edge_list)
       THEN /\ component_id' = Labels(number_of_edge_based_nodes, input_edge_list,
                                      input_node_segments, small_component_size)
            /\ scc_pc' = "done"
       ELSE /\ scc_pc' = "assertion_failed"
            /\ UNCHANGED component_id
    /\ UNCHANGED <<number_of_edge_based_nodes, input_edge_list,
                   input_node_segments, small_component_size>>
    /\ UNCHANGED <<segVars, fsnVars, runVars, rtreeVars, clsVars, rstVars>>

NextAssert == FindComponentsAsserting

SpecAssert == InitAssert /\ [][NextAssert]_vars

-----------------------------------------------------------------------------
(* Claims about FindComponents (checked under SpecSCC) *)

EnabledSegments ==
    {input_node_segments[i] : i \in
        {j \in 1..Len(input_node_segments) : input_node_segments[j].reverse_enabled}}

\* C1: after FindComponents, for every segment whose reverse id is enabled,
\* the component id stored for the forward id equals the component id stored
\* for the reverse id, whatever the edge-based edge list is.
C1_MatesShareComponent ==
    scc_pc = "done" =>
        \A s \in EnabledSegments :
            component_id[s.forward_segment_id].id =
                component_id[s.reverse_segment_id].id

\* C1 witness: the labeler has run on a segment with an enabled reverse id
\* whose two nodes the edge list connects in one direction only.
C1_Witness ==
    /\ scc_pc = "done"
    /\ \E s \in EnabledSegments :
           /\ \E i \in 1..Len(input_edge_list) :
                  /\ input_edge_list[i].forward
                  /\ input_edge_list[i].source = s.forward_segment_id
                  /\ input_edge_list[i].target = s.reverse_segment_id
           /\ \A i \in 1..Len(input_edge_list) :
                  /\ ~input_edge_list[i].backward
                  /\ input_edge_list[i].source # s.reverse_segment_id

\* The nodes that carry the same stored component id as node v.
SameLabel(v) ==
    {w \in 0..(number_of_edge_based_nodes - 1) :
        component_id[w].id = component_id[v].id}

\* C2: after FindComponents every edge-based node id in
\* [0, number_of_edge_based_nodes) carries a component id equal to 1 + its
\* SCC index (never 0), and a tiny flag that is true exactly when the number
\* of nodes of its component is strictly less than small_component_size.
C2_LabelAndTinyFlag ==
    scc_pc = "done" =>
        /\ DOMAIN component_id = 0..(number_of_edge_based_nodes - 1)
        /\ \A v \in 0..(number_of_edge_based_nodes - 1) :
               /\ component_id[v].id >= 1
               /\ component_id[v].id =
                      1 + GetComponentID(
                              ComponentGraph(number_of_edge_based_nodes,
                                             input_edge_list, input_node_segments), v)
               /\ component_id[v].is_tiny =
                      (Cardinality(SameLabel(v)) < small_component_size)

\* C2 witness: the labeler has run and some component has exactly the
\* threshold size, next to a strictly smaller one.
C2_Witness ==
    /\ scc_pc = "done"
    /\ \E v, w \in 0..(number_of_edge_based_nodes - 1) :
           /\ Cardinality(SameLabel(v)) = small_component_size
           /\ ~component_id[v].is_tiny
           /\ Cardinality(SameLabel(w)) < small_component_size
           /\ component_id[w].is_tiny

\* The input of boundary case B3: a single bidirectional way of two nodes,
\* i.e. two edge-based nodes, no edge-based edge, one segment whose reverse id
\* is enabled.
SingleBidirectionalWay ==
    /\ number_of_edge_based_nodes = 2
    /\ input_edge_list = <<>>
    /\ Len(input_node_segments) = 1
    /\ input_node_segments[1].reverse_enabled

\* C5 as stated: on the single bidirectional way FindComponents gives the two
\* edge-based nodes different component ids.
C5_Original ==
    (scc_pc = "done" /\ SingleBidirectionalWay) =>
        component_id[0].id # component_id[1].id

\* C5 amended: on the single bidirectional way FindComponents puts the two
\* edge-based nodes into one component of size 2: both carry component id 1.
C5_SingleWayOneComponent ==
    (scc_pc = "done" /\ SingleBidirectionalWay) =>
        /\ component_id[0].id = 1
        /\ component_id[1].id = 1
        /\ component_id[0].is_tiny = (2 < small_component_size)
        /\ component_id[1].is_tiny = (2 < small_component_size)

\* C5 witness: the labeler has run on the single bidirectional way.
C5_Witness == scc_pc = "done" /\ SingleBidirectionalWay

\* The arcs of the directed graph of C20: (source,target) for every edge with
\* the forward flag, (target,source) for every edge with the backward flag,
\* both directions between the two ids of a segment whose reverse id is
\* enabled.
ClaimedArcs ==
    {<<e.source, e.target>> : e \in {x \in Range(input_edge_list) : x.forward}}
    \cup {<<e.target, e.source>> : e \in {x \in Range(input_edge_list) : x.backward}}
    \cup {<<s.forward_segment_id, s.reverse_segment_id>> : s \in EnabledSegments}
    \cup {<<s.reverse_segment_id, s.forward_segment_id>> : s \in EnabledSegments}

\* A walk along the claimed arcs leads from u to v.
Reaches(u, v) ==
    \E len \in 1..number_of_edge_based_nodes :
        \E walk \in [1..len -> 0..(number_of_edge_based_nodes - 1)] :
            /\ walk[1] = u
            /\ walk[len] = v
            /\ \A k \in 1..(len - 1) : <<walk[k], walk[k + 1]>> \in ClaimedArcs

\* C20: after FindComponents two edge-based nodes carry the same component
\* id exactly when each is reachable from the other along the claimed arcs;
\* an edge with neither flag adds no arc and a repeated directed edge adds
\* none either.
C20_SameIdIffMutuallyReachable ==
    scc_pc = "done" =>
        \A u, v \in 0..(number_of_edge_based_nodes - 1) :
            (component_id[u].id = component_id[v].id)
                <=> (Reaches(u, v) /\ Reaches(v, u))

\* C20 witness: the labeler has run without an enabled segment on two
\* different nodes that share a component id, where the way back exists only
\* through the backward flag of an edge, and on a node of its own component
\* next to them.
C20_Witness ==
    /\ scc_pc = "done"
    /\ EnabledSegments = {}
    /\ \E u, v, w \in 0..(number_of_edge_based_nodes - 1) :
           /\ u # v
           /\ component_id[u].id = component_id[v].id
           /\ component_id[w].id # component_id[u].id
           /\ \E i \in 1..Len(input_edge_list) :
                  /\ input_edge_list[i].backward
                  /\ ~input_edge_list[i].forward
                  /\ input_edge_list[i].target = u
                  /\ input_edge_list[i].source = v
           /\ \A i \in 1..Len(input_edge_list) :
                  input_edge_list[i].forward =>
                      /\ input_edge_list[i].source = v
                      /\ input_edge_list[i].target = u

-----------------------------------------------------------------------------
(* Claims about the entry assertions of FindComponents (checked under      *)
(* SpecAssert)                                                             *)

\* C18 as stated: the assertions of the edge loop enforce that source and
\* target are below number_of_edge_based_nodes and that the weight is at
\* least 1: when no assertion fails every edge satisfies all three.
C18_Original ==
    scc_pc = "done"
        => \A i \in 1..Len(input_edge_list) :
              /\ input_edge_list[i].source < number_of_edge_based_nodes
              /\ input_edge_list[i].target < number_of_edge_based_nodes
              /\ input_edge_list[i].weight >= 1

-----------------------------------------------------------------------------
(* Claims about IsSegregated (checked under SpecSeg) *)

\* C4: the detector is symmetric under edge reversal: for the same current
\* edge and length, IsSegregated(N(u), N(v), e, L) equals
\* IsSegregated(N(v), N(u), e, L): swapping the two endpoint neighbor lists
\* never changes the verdict.
C4_SymmetricUnderReversal ==
    seg_pc = "done" => seg_result = seg_mirror

\* C4 witness: a named edge whose two neighbor lists differ (in length and in
\* the names they hold) is flagged in both directions.
C4_Witness ==
    /\ seg_pc = "done"
    /\ seg_current.name # 0
    /\ Len(seg_v1) # Len(seg_v2)
    /\ {seg_v1[i].name : i \in 1..Len(seg_v1)} # {seg_v2[i].name : i \in 1..Len(seg_v2)}
    /\ seg_result
    /\ seg_mirror

\* The rule of C19, on name-sorted lists s1 and s2.
\* The place of entry i among the entries of its name.
RankInName(v, i) == Cardinality({k \in 1..i : v[k].name = v[i].name})

\* The sort-merge name intersection limited to non-empty names: the k-th
\* entry of a name in one list is paired with the k-th of that name in the
\* other.
RuleCommons(s1, s2) ==
    {<<s1[i], s2[j], i>> : <<i, j>> \in
        {ij \in (1..Len(s1)) \X (1..Len(s2)) :
            /\ s1[ij[1]].name = s2[ij[2]].name
            /\ s1[ij[1]].name # 0
            /\ RankInName(s1, ij[1]) = RankInName(s2, ij[2])}}

\* t: 30 for motorway/trunk, 20 for primary, 10 for secondary/tertiary,
\* 5 otherwise.
RuleT(priority) ==
    IF priority \in {"MOTORWAY", "TRUNK"} THEN 30
    ELSE IF priority = "PRIMARY" THEN 20
    ELSE IF priority \in {"SECONDARY", "TERTIARY"} THEN 10
    ELSE 5

SegregationRule(s1, s2, current, edgeLength) ==
    /\ \/ current.name = 0
       \/ \E e \in Range(s1) \cup Range(s2) : e.name = current.name
    /\ Cardinality(RuleCommons(s1, s2)) >= 2
    /\ Cardinality({c \in RuleCommons(s1, s2) : c[1].road_class = c[2].road_class}) >= 2
    /\ \A c \in RuleCommons(s1, s2) :
          edgeLength <= RuleT(c[1].road_priority_class) + RuleT(c[2].road_priority_class)

\* C19: IsSegregated returns true exactly when the rule holds of the sorted
\* lists; when a list has fewer than 2 entries, and IsSegregated returns
\* false at once, the rule is false too, however the lists are sorted; and
\* the length threshold of every priority class is the rule's t.
C19_ReturnsTheRule ==
    /\ \A priority \in RoadPriorityClass :
          GetLengthThreshold([road_priority_class |-> priority]) = RuleT(priority)
    /\ seg_pc = "done"
          => IF TooFewNeighbors(seg_v1, seg_v2)
             THEN /\ seg_result = FALSE
                  /\ \A s1 \in SortByName(seg_v1), s2 \in SortByName(seg_v2) :
                        ~SegregationRule(s1, s2, seg_current, seg_length)
             ELSE seg_result = SegregationRule(seg_v1, seg_v2, seg_current, seg_length)

\* C19 witness: a named edge is flagged at a length equal to the threshold of
\* a PRIMARY and a low-priority road, the smallest among its common pairs.
C19_Witness ==
    /\ seg_pc = "done"
    /\ seg_result = TRUE
    /\ seg_current.name # 0
    /\ seg_length = 25
    /\ \E c \in RuleCommons(seg_v1, seg_v2) :
          c[1].road_priority_class # c[2].road_priority_class
    /\ \E c \in RuleCommons(seg_v1, seg_v2) : c[1].road_class # c[2].road_class

\* C22 as stated: permuting the entries inside either neighbor list never
\* changes the verdict: whatever order the entries of one name reach the
\* merge in, IsSegregated returns what it returned.
C22_Original ==
    (seg_pc = "done" /\ ~TooFewNeighbors(seg_v1, seg_v2))
        => \A s1 \in SortByName(seg_v1), s2 \in SortByName(seg_v2) :
               IsSegregatedSorted(s1, s2, seg_current, seg_length) = seg_result

-----------------------------------------------------------------------------
(* Claims about FindSegregatedNodes (checked under SpecFSN) *)

\* The scenario as the claim states it: the two Broadway edges are 12 m long
\* and every road is PRIMARY (of one class); the roads end at the four
\* junctions.
CarriagewayScenario ==
    \E p \in ScenarioParameters :
        /\ p.broadway_length = 12
        /\ p.priority = "PRIMARY"
        /\ ~p.broadway_continues
        /\ ~p.cross_continues
        /\ fsn_roads = ScenarioRoads(p)

\* The edge ids of the two Broadway edges 0 -> 1 and 2 -> 3.
BroadwayEdges == {<<0, 1>>, <<2, 1>>}

\* C3 as stated: in the segregated-carriageway scenario FindSegregatedNodes
\* flags the Broadway edges as segregated.
C3_Original ==
    (fsn_pc = "done" /\ CarriagewayScenario) =>
        BroadwayEdges \subseteq segregated_edges

\* C3 amended: in the segregated-carriageway scenario FindSegregatedNodes
\* flags neither Broadway edge.
C3_BroadwayNotFlagged ==
    (fsn_pc = "done" /\ CarriagewayScenario) =>
        BroadwayEdges \cap segregated_edges = {}

\* C3 witness: FindSegregatedNodes has gone over every edge of the scenario.
C3_Witness == fsn_pc = "done" /\ CarriagewayScenario

-----------------------------------------------------------------------------
(* Claims about Extractor::run and ParseOSMData (checked under Spec) *)

InPipeline == run_pc \in {"relations_pipeline", "entities_pipeline"}

\* The tokens running a filter of the pipeline that runs now.
RunningNow(filter) ==
    IF InPipeline THEN Running(filter, run_pc, use_locations_cache, tokens) ELSE {}

\* Both pipelines have read every buffer of their input and have returned.
IngestionFinished ==
    /\ ~InPipeline
    /\ run_pc # "header"
    /\ tokens = {}
    /\ buffers_read = <<relation_buffers, Len(entity_buffers)>>
    /\ Len(extraction_containers) = Len(entity_buffers)

\* C6 as stated: an invalid profile declaration is reported before ingestion
\* starts, that is before either pipeline has read a buffer and before
\* PrepareData has written any output.
C6_Original ==
    error \in InvalidProfileDeclaration
        => /\ buffers_read = <<0, 0>>
           /\ written \cap {".osrm", ".osrm.names"} = {}

\* C6 as amended: an invalid profile declaration is reported only after
\* ingestion: when the error is raised both pipelines have read all their
\* buffers and returned, the raw edges list is not empty and PrepareData has
\* written its output; the profile properties are not written and run
\* builds no node-based graph.
C6_ReportedAfterIngestion ==
    error \in InvalidProfileDeclaration
        => /\ IngestionFinished
           /\ Len(AllEdgesList(extraction_containers, entity_buffers)) > 0
           /\ {".osrm", ".osrm.names"} \subseteq written
           /\ ".osrm.properties" \notin written
           /\ node_based_graph_factory = "none"
           /\ run_pc = "propagated"

C6_Witness ==
    /\ error = "UnknownClassName"
    /\ buffers_read[2] > 0
    /\ ".osrm" \in written

\* C7: once the writer of the compressed node-based graph is launched, run
\* neither returns nor lets an exception out before the writer has completed,
\* and the graph factory (owner of the graph and the coordinates the writer
\* reads) is alive as long as the writer runs.
C7_WriterJoinedBeforeRunEnds ==
    /\ run_pc \in {"returned", "propagated"} => writer # "running"
    /\ writer = "running" => node_based_graph_factory = "alive"
    /\ run_pc = "returned" => writer = "done" /\ ".osrm.cnbg" \in written

C7_Witness ==
    /\ run_pc = "propagated"
    /\ error = "StepFailed"
    /\ writer = "done"
    /\ node_based_graph_factory = "destroyed"
    /\ ".osrm.ebg" \notin written

\* The sequence 0, 1, ..., n - 1: the order in which the reader emits.
ReaderOrder(n) == [i \in 1..n |-> i - 1]

\* C8: in the second pipeline the extraction containers (and the classes map
\* the callbacks fill) change only when a running sink invocation ends, at
\* most one sink invocation runs at a time, and the sink has processed the
\* buffers in the order the reader emitted them, whatever the order in which
\* the parallel tag-interpret stage finished them.
C8_SinkSerialInReaderOrder ==
    /\ [](/\ Cardinality(RunningNow("buffer_storage")) <= 1
          /\ extraction_containers = ReaderOrder(Len(extraction_containers)))
    /\ [][run_pc = "entities_pipeline"
            /\ (extraction_containers' # extraction_containers
                \/ classes_map' # classes_map)
          => \E t \in RunningNow("buffer_storage") :
                /\ extraction_containers' = Append(extraction_containers, t.seq)
                /\ t \notin tokens']_vars

C8_Witness ==
    /\ Len(extraction_containers) = 3
    /\ extraction_containers = ReaderOrder(3)
    /\ transformed = <<2, 1, 0>>

\* C9: the relation index is written only by the merge stage of the first
\* pipeline, one invocation at a time; all merges are over (the index holds
\* every relation buffer) whenever a tag-interpret invocation of the second
\* pipeline runs, and no merge runs while one does.
C9_RelationIndexWrittenBeforeRead ==
    /\ [](/\ Cardinality(RunningNow("buffer_storage_relation")) <= 1
          /\ RunningNow("buffer_transformer") # {}
                => /\ RunningNow("buffer_storage_relation") = {}
                   /\ Len(relations) = relation_buffers
          /\ run_pc \notin {"header", "relations_pipeline"}
                => Len(relations) = relation_buffers)
    /\ [][relations' # relations
          => /\ run_pc = "relations_pipeline"
             /\ \E t \in RunningNow("buffer_storage_relation") :
                   /\ relations' = Append(relations, t.seq)
                   /\ t \notin tokens']_vars

C9_Witness ==
    /\ Len(relations) = 3
    /\ Cardinality(RunningNow("buffer_transformer")) = 2

\* The check of the raw edges list is behind and found the list empty.
EmptyEdgesFound ==
    /\ IngestionFinished
    /\ ~(run_pc = "ParseOSMData" /\ ParseOSMDataSteps[step] = "check_edges")
    /\ Len(AllEdgesList(extraction_containers, entity_buffers)) = 0

\* C10: if the raw edges list is empty after the second pipeline, ParseOSMData
\* fails and does none of its later steps: PrepareData has written nothing,
\* no class name and no excludable mask is set, the profile properties are
\* not written, and run builds no node-based graph.
C10_EmptyEdgesIsFatal ==
    EmptyEdgesFound
        => /\ error = "NoEdges"
           /\ run_pc = "propagated"
           /\ written = {".osrm.timestamp"}
           /\ profile_properties = [class_names |-> {}, excludable_classes |-> <<>>]
           /\ node_based_graph_factory = "none"
           /\ writer = "none"

C10_Witness ==
    /\ error = "NoEdges"
    /\ run_pc = "propagated"
    /\ Len(extraction_containers) = 2
    /\ profile.class_names # <<>>

=============================================================================
